---- MODULE Spec2Model ----
(***************************************************************************)
(* The record decoder of pensieve (RecordReader, record_reader.cpp) as a   *)
(* state machine.  The byte stream is produced record by record: every     *)
(* read step chooses what the source delivers next, so the reachable       *)
(* states cover every stream of at most MaxRecords records, every point of *)
(* truncation and every moment at which the source is closed from outside. *)
(***************************************************************************)
EXTENDS Integers, Sequences, FiniteSets, TLC

\* ------------------------------------------------------------------ bounds
MaxRecords == 3
MaxFrameRecords == 4
MaxAux == 1
MaxPopCount == 2
MaxSegments == 1
MaxMutexRecords == 4
MaxSocketAllocations == 3
MaxSnapshots == 2
MaxEvents == 3
MaxCalleeRecords == 8
MaxTraceRecords == 5
MaxTraceCalls == 2
MaxHybridFrames == 3

\* ------------------------------------------------------- input alphabets
Tids == {7, 8}
FrameIds == {1, 8}
Linenos == {12, 15}
Sizes == {64}
FrameDefs ==
    { [function_name |-> "f", filename |-> "a.py", parent_lineno |-> 10],
      [function_name |-> "g", filename |-> "b.py", parent_lineno |-> 20] }
Versions == {"CURRENT_HEADER_VERSION", "OTHER_VERSION"}
PopCounts == 0..MaxPopCount

\* The cases of the switch in nextAllocationRecord; every other tag byte,
\* RecordType::SEGMENT included, takes the default case.
CoreTags == { "ALLOCATION", "FRAME_PUSH", "FRAME_POP", "FRAME_INDEX" }
AuxTags ==
    { "NATIVE_TRACE_INDEX", "MEMORY_MAP_START", "SEGMENT_HEADER",
      "THREAD_RECORD" }
OtherTags == { "SEGMENT", "INVALID" }
Tags == CoreTags \cup AuxTags \cup OtherTags

VARIABLES
    phase,               \* "new", "ready", "ctor_failed", "aborted"
    assertsEnabled,      \* the build: assert() compiled in (no NDEBUG)
    hdr,                 \* the header bytes the constructor met
    pc,                  \* "idle", "tag", "payload": position in nextAllocationRecord
    is_open,             \* d_input->is_open()
    ended,               \* the source has no further bytes
    d_stack_traces,      \* tid -> stack of frame ids (keys: the tids seen)
    d_frame_map,         \* frame id -> Frame
    d_allocation_frames, \* Frame -> frame id (the allocation-frame interner)
    d_tree,              \* stack tree, node i at position i (node 0 is the root)
    d_native_frames,
    d_thread_names,
    d_symbol_resolver,
    ret,                 \* outcome of the last step of nextAllocationRecord
    logged,              \* that step wrote LOG(ERROR)
    allocation,          \* *allocation, the out parameter
    last,                \* the record consumed last
    nrec,                \* records whose payload was parsed
    naux,                \* those among them that are no frame or allocation record
    wireAllocs,          \* the complete ALLOCATION records consumed, in wire order
    delivered,           \* the allocations delivered by calls that returned true
    nPush, nPop,         \* per tid: FRAME_PUSH records, sum of FRAME_POP counts
    underpop,            \* a FRAME_POP popped more than its stack held
    pushed,              \* per tid: the frame ids pushed and not yet popped
    baseIds,             \* frame ids defined by an accepted FRAME_INDEX
    prevAlloc,           \* per tid: the last delivery since its last push/pop
    stackAt,             \* per delivery: the frame ids pushed and not yet popped by its tid
    \* _pensieve.pyx, class Tracker
    _TRACKER,            \* the global NativeTracker: "NULL" or the Tracker that installed it
    _writer,             \* per Tracker: self._writer is not NULL
    _profile_hook,       \* threading._profile_hook
    _previous_thread_profile_func,   \* per Tracker
    caller,              \* per thread: where it is in a `with Tracker` statement
    refused,             \* the Tracker objects an __enter__ refused because another was active
    \* RecordReader::d_mutex and the two threads that take it
    d_mutex,             \* "free", or the holder: "decoder", "query"
    thread,              \* the decoder thread: its place in the handling of a record
    query,               \* the foreground thread: its place in Py_GetStackFrame
    \* _pensieve.pyx, class SocketReader, and its BackgroundSocketReader
    _impl,               \* self._impl: "NULL" or "started"
    main,                \* the foreground thread: its place in the life of a SocketReader
    worker,              \* the worker thread: its place in the loop
    d_stop_thread,       \* the flag the worker tests at the head of its loop
    d_allocations,       \* the vector of materialized allocations (0: a slot not yet written)
    decoded,             \* allocations nextAllocationRecord delivered to the worker
    peer,                \* the traced process: "sending", "silent", "closed"
    snapshots,           \* the vectors the snapshots taken so far were computed from
    blockedAtExit,       \* __exit__ began while the worker waited in a read for a silent peer
    \* _pensieve.pyx, class FileReader
    capture,             \* what the capture file holds after its header, in order
    offset,              \* how much of it the reader of the FileReader has consumed
    _native_allocations, \* self._native_allocations
    _high_watermark,     \* self._high_watermark: << >> (NULL) or << HighWatermark >>
    leaks,               \* rows of the last get_leaked_allocation_records: << >> or << rows >>
    iteration,           \* the generator a records method returned last, and how far it got
    \* _pensieve.pyx, class AllocationRecord
    _tuple,              \* self._tuple: stack_id is the stack-tree index (0: no record yet)
    _stack_trace,        \* self._stack_trace: << >> (None) or << list >>
    traced,              \* the last call of stack_trace: its argument and what came of it
    python_stack,        \* what self.stack_trace(max_stacks) returns to hybrid_stack_trace
    native_stack,        \* what self.native_stack_trace(max_stacks) returns to it
    hybrid               \* << >>, or << what the iteration of hybrid_stack_trace came to >>

trackerVars ==
    << _TRACKER, _writer, _profile_hook, _previous_thread_profile_func,
       caller, refused >>

\* what the decoder's record handlers leave alone
mutexVars == << d_mutex, thread, query >>

socketVars ==
    << _impl, main, worker, d_stop_thread, d_allocations, decoded, peer,
       snapshots, blockedAtExit >>

fileVars ==
    << capture, offset, _native_allocations, _high_watermark, leaks,
       iteration >>

recordVars == << _tuple, _stack_trace, traced >>

hybridVars == << python_stack, native_stack, hybrid >>

hostVars ==
    << trackerVars, mutexVars, socketVars, fileVars, recordVars,
       hybridVars >>

readerVars ==
    << phase, assertsEnabled, hdr, pc, is_open, ended,
       d_stack_traces, d_frame_map, d_allocation_frames, d_tree,
       d_native_frames, d_thread_names, d_symbol_resolver, ret, logged,
       allocation, last, nrec, naux, wireAllocs, delivered, nPush, nPop,
       underpop, pushed, baseIds, prevAlloc, stackAt >>

vars == << readerVars, hostVars >>

exceptTracker ==
    << readerVars, mutexVars, socketVars, fileVars, recordVars,
       hybridVars >>

\* what the SocketReader and its worker leave alone
exceptSocket ==
    << phase, assertsEnabled, hdr, pc, ended, d_stack_traces, d_frame_map,
       d_allocation_frames, d_tree, d_native_frames, d_thread_names,
       d_symbol_resolver, ret, logged, allocation, last, nrec, naux,
       wireAllocs, delivered, nPush, nPop, underpop, pushed, baseIds,
       prevAlloc, stackAt, trackerVars, thread, query, fileVars,
       recordVars, hybridVars >>

\* what the steps of the two threads around d_mutex leave alone
exceptMutex ==
    << phase, assertsEnabled, hdr, pc, is_open, ended, d_native_frames,
       d_thread_names, ret, logged, last, naux, wireAllocs, nPush, nPop,
       underpop, pushed, baseIds, prevAlloc, stackAt, trackerVars, socketVars,
       fileVars, recordVars, hybridVars >>

decoderState ==
    << d_stack_traces, d_frame_map, d_allocation_frames, d_tree,
       d_native_frames, d_thread_names, d_symbol_resolver >>

history ==
    << wireAllocs, delivered, nPush, nPop, underpop, pushed, baseIds,
       prevAlloc, stackAt >>

\* what the analytics of a FileReader leave alone
exceptFile ==
    << phase, assertsEnabled, hdr, pc, ended, decoderState, ret, logged,
       allocation, last, nrec, naux, history, trackerVars, mutexVars,
       socketVars, recordVars, hybridVars >>

\* what the methods of an AllocationRecord leave alone
exceptRecord ==
    << readerVars, trackerVars, mutexVars, socketVars, fileVars,
       hybridVars >>

\* what hybrid_stack_trace leaves alone
exceptHybrid ==
    << readerVars, trackerVars, mutexVars, socketVars, fileVars,
       recordVars >>

\* ----------------------------------------------------------------- helpers
Put(f, k, v) == [x \in DOMAIN f \cup {k} |-> IF x = k THEN v ELSE f[x]]

Back(s) == s[Len(s)]

NoRecord ==
    [kind |-> "NONE", tid |-> 0, id |-> 0, count |-> 0, lineno |-> 0,
     ok |-> FALSE]

NoHeader == [avail |-> 0, magicOk |-> FALSE, version |-> "OTHER_VERSION"]

NoAllocation ==
    [record |-> [tid |-> 0, address |-> 0, size |-> 0, allocator |-> "NONE",
                 py_lineno |-> 0, native_frame_id |-> 0],
     frame_index |-> 0, native_segment_generation |-> 0]

NoPrev == [valid |-> FALSE, lineno |-> 0, index |-> 0]

StackOf(t) == IF t \in DOMAIN d_stack_traces THEN d_stack_traces[t] ELSE << >>

Trackers == {"A", "B"}
Threads == {1, 2}

NotCalling == [at |-> "idle", self |-> "NULL", raised |-> "none"]

InitTracker ==
    /\ _TRACKER = "NULL"
    /\ _writer = [t \in Trackers |-> TRUE]
    /\ _profile_hook = "None"
    /\ _previous_thread_profile_func = [t \in Trackers |-> "unset"]
    /\ caller = [th \in Threads |-> NotCalling]
    /\ refused = {}

InitReader ==
    /\ phase = "new"
    /\ assertsEnabled \in BOOLEAN
    /\ hdr = NoHeader
    /\ pc = "idle"
    /\ is_open = TRUE
    /\ ended = FALSE
    /\ d_stack_traces = << >>
    /\ d_frame_map = << >>
    /\ d_allocation_frames = << >>
    /\ d_tree = << >>
    /\ d_native_frames = << >>
    /\ d_thread_names = << >>
    /\ d_symbol_resolver = [generation |-> 0, objects |-> << >>]
    /\ ret = "none"
    /\ logged = FALSE
    /\ allocation = NoAllocation
    /\ last = NoRecord
    /\ nrec = 0
    /\ naux = 0
    /\ wireAllocs = << >>
    /\ delivered = << >>
    /\ nPush = [t \in Tids |-> 0]
    /\ nPop = [t \in Tids |-> 0]
    /\ underpop = FALSE
    /\ pushed = [t \in Tids |-> << >>]
    /\ baseIds = {}
    /\ prevAlloc = [t \in Tids |-> NoPrev]
    /\ stackAt = << >>

NoStep ==
    [at |-> "tag", kind |-> "NONE", tid |-> 0, id |-> 0, lineno |-> 0,
     count |-> 0, def |-> "NONE", frame |-> "NONE"]

NoQuery == [at |-> "idle", current_index |-> 0, list |-> << >>]

InitMutex ==
    /\ d_mutex = "free"
    /\ thread = NoStep
    /\ query = NoQuery

InitSocket ==
    /\ _impl = "NULL"
    /\ main = "new"
    /\ worker = [at |-> "none", native_allocation |-> 0]
    /\ d_stop_thread = FALSE
    /\ d_allocations = << >>
    /\ decoded = 0
    /\ peer = "sending"
    /\ snapshots = << >>
    /\ blockedAtExit = FALSE

NoIteration ==
    [of |-> "none", at |-> "none", pending |-> {}, yielded |-> 0,
     raised |-> "none"]

InitFile ==
    /\ capture = << >>
    /\ offset = 0
    /\ _native_allocations = << >>
    /\ _high_watermark = << >>
    /\ leaks = << >>
    /\ iteration = NoIteration

NotTraced == [max_stacks |-> 0, returned |-> << >>, raised |-> "none", calls |-> 0]

InitRecord ==
    /\ _tuple = [stack_id |-> 0]
    /\ _stack_trace = << >>
    /\ traced = NotTraced

InitHybrid ==
    /\ python_stack = << >>
    /\ native_stack = << >>
    /\ hybrid = << >>

Init ==
    /\ InitReader /\ InitTracker /\ InitMutex /\ InitSocket /\ InitFile
    /\ InitRecord /\ InitHybrid

\* ------------------------------------------------------------ constructor
\* readHeader: "ok" or "throw".  h is the header the source holds: h.avail
\* of its six fields (magic, version, native_traces, stats, command_line,
\* pid) are complete.  The read of the version is not checked, so after a
\* failed read the comparison sees the indeterminate value `uninit`.
readHeader_NoVersionCheck(h, uninit) ==
    IF h.avail < 1 \/ ~h.magicOk THEN "throw"
    ELSE IF h.avail < 5 THEN "throw"
    ELSE IF h.avail < 6 THEN "throw"
    ELSE "ok"

readHeader(h, uninit) ==
    IF h.avail < 1 \/ ~h.magicOk THEN "throw"
    ELSE LET version == IF h.avail >= 2 THEN h.version ELSE uninit
         IN  IF version # "CURRENT_HEADER_VERSION" THEN "throw"
             ELSE IF h.avail < 5 THEN "throw"
             ELSE IF h.avail < 6 THEN "throw"
             ELSE "ok"

RecordReader ==
    /\ phase = "new"
    /\ \E avail \in 0..6, magicOk \in BOOLEAN, version \in Versions,
          uninit \in Versions :
         LET h == [avail |-> avail, magicOk |-> magicOk, version |-> version]
         IN  /\ hdr' = h
             /\ phase' = IF readHeader(h, uninit) = "ok" THEN "ready"
                         ELSE "ctor_failed"
             /\ ended' = (avail < 6)
    /\ UNCHANGED << hostVars, assertsEnabled, pc, is_open, decoderState,
                    ret, logged, allocation, last, nrec, naux, history >>

close ==
    /\ phase = "ready"
    /\ is_open
    /\ is_open' = FALSE
    /\ UNCHANGED << hostVars, phase, assertsEnabled, hdr, pc, ended,
                    decoderState, ret, logged, allocation, last, nrec,
                    naux, history >>

\* ------------------------------------------------- nextAllocationRecord
\* how one step of the loop ends
Continue == pc' = "tag" /\ ret' = "none" /\ logged' = FALSE /\ phase' = phase
ReturnTrue == pc' = "idle" /\ ret' = "true" /\ logged' = FALSE /\ phase' = phase
ReturnFalse(log) == pc' = "idle" /\ ret' = "false" /\ logged' = log /\ phase' = phase
Throw == pc' = "idle" /\ ret' = "throw" /\ logged' = FALSE /\ phase' = phase
Abort == pc' = "idle" /\ ret' = "abort" /\ logged' = FALSE /\ phase' = "aborted"

\* `if (d_input->is_open()) LOG(ERROR) << ...` on a failed parse
LogsFailure_Always == TRUE

LogsFailure == is_open

\* d_input->read / getline of a payload of which the source holds all bytes
\* iff `complete`
ReadOk(complete) == is_open /\ complete

\* a payload step consumed record r
Consumed(r, complete) ==
    /\ last' = IF ReadOk(complete) THEN [r EXCEPT !.ok = TRUE]
                ELSE [NoRecord EXCEPT !.kind = r.kind]
    /\ nrec' = nrec + 1
    /\ ended' = (ended \/ ~complete)
    /\ naux' = IF r.kind \in CoreTags THEN naux ELSE naux + 1
    /\ UNCHANGED << hostVars, assertsEnabled, hdr, is_open >>

\* the caller enters nextAllocationRecord
nextAllocationRecord ==
    /\ phase = "ready"
    /\ pc = "idle"
    /\ pc' = "tag"
    /\ ret' = "none"
    /\ logged' = FALSE
    /\ UNCHANGED << hostVars, phase, assertsEnabled, hdr, is_open, ended,
                    decoderState, allocation, last, nrec, naux, history >>

\* The read of the tag byte at the head of the loop.  record_type is a
\* local that nothing else reads, so the value of a tag that was read is
\* drawn where the switch dispatches on it (Dispatch).
readRecordType(limit) ==
    /\ phase = "ready"
    /\ pc = "tag"
    /\ \/ /\ is_open /\ ~ended /\ nrec < limit
          /\ pc' = "payload"
          /\ UNCHANGED << ended, ret, logged >>
       \/ /\ ~is_open \/ ended
          /\ pc' = "idle" /\ ret' = "false" /\ logged' = FALSE
          /\ UNCHANGED ended
       \/ /\ is_open /\ ~ended
          /\ ended' = TRUE
          /\ pc' = "idle" /\ ret' = "false" /\ logged' = FALSE
    /\ UNCHANGED << hostVars, phase, assertsEnabled, hdr, is_open, decoderState,
                    allocation, last, nrec, naux, history >>

\* `switch (record_type)` takes the case of `tag`
Dispatch(tag) ==
    /\ phase = "ready" /\ pc = "payload"
    /\ tag \notin CoreTags => naux < MaxAux

\* ---------------------------------------------------------- frame stacks
parseFramePush(tid, frame_id, complete) ==
    /\ Dispatch("FRAME_PUSH")
    /\ Consumed([NoRecord EXCEPT !.kind = "FRAME_PUSH", !.tid = tid,
                                 !.id = frame_id], complete)
    /\ IF ReadOk(complete)
       THEN /\ d_stack_traces' =
                   Put(d_stack_traces, tid, Append(StackOf(tid), frame_id))
            /\ nPush' = [nPush EXCEPT ![tid] = @ + 1]
            /\ pushed' = [pushed EXCEPT ![tid] = Append(@, frame_id)]
            /\ prevAlloc' = [prevAlloc EXCEPT ![tid] = NoPrev]
            /\ UNCHANGED stackAt
            /\ Continue
       ELSE /\ ReturnFalse(LogsFailure)
            /\ UNCHANGED << d_stack_traces, nPush, pushed, prevAlloc, stackAt >>
    /\ UNCHANGED << d_frame_map, d_allocation_frames, d_tree, d_native_frames,
                    d_thread_names, d_symbol_resolver, allocation, wireAllocs,
                    delivered, nPop, underpop, baseIds >>

\* `assert(!d_stack_traces[tid].empty())`: fires in a build with assertions
PopAsserts(stack, count) == assertsEnabled /\ stack = << >>

\* the stack after `count` pop_back() calls that all find an element
PopBack_OneTooMany(stack, count) ==
    SubSeq(stack, 1, IF count = 0 THEN Len(stack) - 1 ELSE Len(stack) - count)

PopBack(stack, count) == SubSeq(stack, 1, Len(stack) - count)

\* pop_back() on an empty vector is undefined: the process dies ("abort")
\* or goes on ("cont"); the model then carries the stack as empty.
parseFramePop(tid, count, complete) ==
    /\ Dispatch("FRAME_POP")
    /\ Consumed([NoRecord EXCEPT !.kind = "FRAME_POP", !.tid = tid,
                                 !.count = count], complete)
    /\ IF ~ReadOk(complete)
       THEN /\ ReturnFalse(LogsFailure)
            /\ UNCHANGED << d_stack_traces, nPop, pushed, prevAlloc, stackAt, underpop >>
       ELSE IF PopAsserts(StackOf(tid), count)
       THEN /\ Abort
            /\ d_stack_traces' = Put(d_stack_traces, tid, StackOf(tid))
            /\ underpop' = (underpop \/ count > 0)
            /\ UNCHANGED << nPop, pushed, prevAlloc, stackAt >>
       ELSE IF count <= Len(StackOf(tid))
       THEN /\ d_stack_traces' =
                   Put(d_stack_traces, tid, PopBack(StackOf(tid), count))
            /\ nPop' = [nPop EXCEPT ![tid] = @ + count]
            /\ pushed' = [pushed EXCEPT
                   ![tid] = SubSeq(@, 1, Len(@) - count)]
            /\ prevAlloc' = [prevAlloc EXCEPT ![tid] = NoPrev]
            /\ UNCHANGED stackAt
            /\ Continue
            /\ UNCHANGED underpop
       ELSE /\ underpop' = TRUE
            /\ d_stack_traces' = Put(d_stack_traces, tid, << >>)
            /\ nPop' = [nPop EXCEPT ![tid] = @ + count]
            /\ pushed' = [pushed EXCEPT ![tid] = << >>]
            /\ prevAlloc' = [prevAlloc EXCEPT ![tid] = NoPrev]
            /\ UNCHANGED stackAt
            /\ \E outcome \in {"abort", "cont"} :
                 IF outcome = "abort" THEN Abort ELSE Continue
    /\ UNCHANGED << d_frame_map, d_allocation_frames, d_tree, d_native_frames,
                    d_thread_names, d_symbol_resolver, allocation, wireAllocs,
                    delivered, nPush, baseIds >>

\* ------------------------------------------------------------ frame map
\* std::unordered_map::insert / emplace: the first entry of a key stays
Emplace_Overwrite(map, key, value) == Put(map, key, value)

Emplace(map, key, value) ==
    IF key \in DOMAIN map THEN map ELSE Put(map, key, value)

\* FRAME_INDEX leaves Frame::lineno as constructed; nothing reads it
CanonicalFrame(def) ==
    [function_name |-> def.function_name, filename |-> def.filename,
     parent_lineno |-> def.parent_lineno, lineno |-> 0]

\* `if (!iterator.second) throw std::runtime_error(...)`
InsertRejected(map, key) == key \in DOMAIN map

parseFrameIndex(frame_id, def, complete) ==
    /\ Dispatch("FRAME_INDEX")
    /\ Consumed([NoRecord EXCEPT !.kind = "FRAME_INDEX", !.id = frame_id],
                complete)
    /\ IF ~ReadOk(complete)
       THEN /\ ReturnFalse(LogsFailure)
            /\ UNCHANGED << d_frame_map, baseIds >>
       ELSE /\ d_frame_map' = Emplace(d_frame_map, frame_id, CanonicalFrame(def))
            /\ IF InsertRejected(d_frame_map, frame_id)
               THEN Throw /\ UNCHANGED baseIds
               ELSE Continue /\ baseIds' = baseIds \cup {frame_id}
    /\ UNCHANGED << d_stack_traces, d_allocation_frames, d_tree,
                    d_native_frames, d_thread_names, d_symbol_resolver,
                    allocation, wireAllocs, delivered, nPush, nPop, underpop,
                    pushed, prevAlloc, stackAt >>

\* ------------------------------------------- interner and stack tree
\* FrameCollection::getIndex of d_allocation_frames: a Frame seen before
\* keeps its id, a new Frame gets the next id of a dense numbering in which
\* 0 is reserved.
AllocationFrameId(n) == n + 1

getIndex(collection, frame) ==
    IF frame \in DOMAIN collection
    THEN [index |-> collection[frame], is_new |-> FALSE,
          collection |-> collection]
    ELSE LET id == AllocationFrameId(Cardinality(DOMAIN collection))
         IN  [index |-> id, is_new |-> TRUE,
              collection |-> Put(collection, frame, id)]

\* FrameTree::getTraceIndex: the node that ends the path `stack` (root
\* first), children keyed by (parent_index, frame_id), grown as needed.
ChildOf(tree, parent, frame_id) ==
    { i \in 1..Len(tree) :
        tree[i].parent_index = parent /\ tree[i].frame_id = frame_id }

RECURSIVE TraceIndexFrom(_, _, _, _)
TraceIndexFrom(tree, index, stack, k) ==
    IF k > Len(stack) THEN [tree |-> tree, index |-> index]
    ELSE LET kids == ChildOf(tree, index, stack[k])
         IN  IF kids # {}
             THEN TraceIndexFrom(tree, CHOOSE i \in kids : TRUE, stack, k + 1)
             ELSE TraceIndexFrom(
                      Append(tree, [frame_id |-> stack[k],
                                    parent_index |-> index]),
                      Len(tree) + 1, stack, k + 1)

getTraceIndex(tree, stack) == TraceIndexFrom(tree, 0, stack, 1)

\* ------------------------------------------------------------ allocation
AllocationFrame(partial_frame, lineno) ==
    [function_name |-> partial_frame.function_name,
     filename |-> partial_frame.filename,
     parent_lineno |-> partial_frame.parent_lineno,
     lineno |-> lineno]

\* correctAllocationFrame on `stack`: d_frame_map.at throws when the top id
\* has no entry, before anything is changed.
Corrected(throws, stack, frame_map, collection) ==
    [throws |-> throws, stack |-> stack, frame_map |-> frame_map,
     collection |-> collection]

SpecializeTop(stack, lineno, frame_map, collection) ==
    IF Back(stack) \notin DOMAIN frame_map
    THEN Corrected(TRUE, stack, frame_map, collection)
    ELSE LET allocation_frame == AllocationFrame(frame_map[Back(stack)], lineno)
             got == getIndex(collection, allocation_frame)
         IN  Corrected(
                 FALSE,
                 [stack EXCEPT ![Len(stack)] = got.index],
                 IF got.is_new
                 THEN Emplace(frame_map, got.index, allocation_frame)
                 ELSE frame_map,
                 got.collection)

correctAllocationFrame_NoEmptyCheck(stack, lineno, frame_map, collection) ==
    LET frame == [function_name |-> "", filename |-> "",
                  parent_lineno |-> 0, lineno |-> lineno]
        got == getIndex(collection, frame)
    IN  IF stack = << >>
        THEN Corrected(FALSE, << got.index >>,
                       Emplace(frame_map, got.index, frame), got.collection)
        ELSE SpecializeTop(stack, lineno, frame_map, collection)

correctAllocationFrame(stack, lineno, frame_map, collection) ==
    IF stack = << >> THEN Corrected(FALSE, stack, frame_map, collection)
    ELSE SpecializeTop(stack, lineno, frame_map, collection)

\* getAllocationFrameIndex: the index, and the decoder state it leaves
FrameIndexResult(throws, index, stacks, frame_map, collection, tree) ==
    [throws |-> throws, index |-> index, stacks |-> stacks,
     frame_map |-> frame_map, collection |-> collection, tree |-> tree]

getAllocationFrameIndex(record) ==
    IF record.tid \notin DOMAIN d_stack_traces
    THEN FrameIndexResult(FALSE, 0, d_stack_traces, d_frame_map,
                          d_allocation_frames, d_tree)
    ELSE LET c == correctAllocationFrame(
                      d_stack_traces[record.tid], record.py_lineno,
                      d_frame_map, d_allocation_frames)
             t == getTraceIndex(d_tree, c.stack)
         IN  IF c.throws
             THEN FrameIndexResult(TRUE, 0, d_stack_traces, d_frame_map,
                                   d_allocation_frames, d_tree)
             ELSE FrameIndexResult(
                      FALSE, t.index,
                      [d_stack_traces EXCEPT ![record.tid] = c.stack],
                      c.frame_map, c.collection, t.tree)

AllocationRecord(tid, size, py_lineno) ==
    [tid |-> tid, address |-> 256, size |-> size, allocator |-> "MALLOC",
     py_lineno |-> py_lineno, native_frame_id |-> 0]

\* `*allocation = Allocation{record, f_index, currentSegmentGeneration()}`
Allocation_NoGeneration(record, f_index) ==
    [record |-> record, frame_index |-> f_index,
     native_segment_generation |-> 0]

Allocation(record, f_index) ==
    [record |-> record, frame_index |-> f_index,
     native_segment_generation |-> d_symbol_resolver.generation]

parseAllocationRecord(tid, size, py_lineno, complete) ==
    LET record == AllocationRecord(tid, size, py_lineno)
        got == getAllocationFrameIndex(record)
    IN  /\ Dispatch("ALLOCATION")
        /\ Consumed([NoRecord EXCEPT !.kind = "ALLOCATION", !.tid = tid,
                                     !.lineno = py_lineno], complete)
        /\ IF ~ReadOk(complete)
           THEN /\ ReturnFalse(LogsFailure)
                /\ UNCHANGED << d_stack_traces, d_frame_map,
                                d_allocation_frames, d_tree, allocation,
                                wireAllocs, delivered, prevAlloc, stackAt >>
           ELSE /\ wireAllocs' = Append(wireAllocs, record)
                /\ d_stack_traces' = got.stacks
                /\ d_frame_map' = got.frame_map
                /\ d_allocation_frames' = got.collection
                /\ d_tree' = got.tree
                /\ IF got.throws
                   THEN /\ Throw
                        /\ UNCHANGED << allocation, delivered, prevAlloc, stackAt >>
                   ELSE /\ ReturnTrue
                        /\ allocation' = Allocation(record, got.index)
                        /\ delivered' = Append(delivered, allocation')
                        /\ prevAlloc' =
                             IF StackOf(tid) # << >>
                             THEN [prevAlloc EXCEPT ![tid] =
                                     [valid |-> TRUE, lineno |-> py_lineno,
                                      index |-> got.index]]
                             ELSE prevAlloc
                        /\ stackAt' = Append(stackAt, pushed[tid])
        /\ UNCHANGED << d_native_frames, d_thread_names, d_symbol_resolver,
                        nPush, nPop, underpop, pushed, baseIds >>

\* ------------------------------------------------- the other record types
parseNativeFrameIndex(complete) ==
    /\ Dispatch("NATIVE_TRACE_INDEX")
    /\ Consumed([NoRecord EXCEPT !.kind = "NATIVE_TRACE_INDEX"], complete)
    /\ IF ReadOk(complete)
       THEN /\ d_native_frames' =
                   Append(d_native_frames, [ip |-> 28752, index |-> 0])
            /\ Continue
       ELSE /\ ReturnFalse(LogsFailure)
            /\ UNCHANGED d_native_frames
    /\ UNCHANGED << d_stack_traces, d_frame_map, d_allocation_frames, d_tree,
                    d_thread_names, d_symbol_resolver, allocation, history >>

\* SymbolResolver::clearSegments: drop the loaded objects, bump the generation
clearSegments(resolver) ==
    [generation |-> resolver.generation + 1, objects |-> << >>]

\* SymbolResolver::addSegments: one LoadedObject at the current generation
addSegments(resolver, filename, addr, segments) ==
    [resolver EXCEPT !.objects =
        Append(@, [filename |-> filename, addr |-> addr,
                   segments |-> segments,
                   generation |-> resolver.generation])]

memoryMapStart ==
    /\ Dispatch("MEMORY_MAP_START")
    /\ last' = [NoRecord EXCEPT !.kind = "MEMORY_MAP_START", !.ok = TRUE]
    /\ nrec' = nrec + 1
    /\ d_symbol_resolver' = clearSegments(d_symbol_resolver)
    /\ Continue
    /\ naux' = naux + 1
    /\ UNCHANGED << hostVars, assertsEnabled, hdr, is_open, ended,
                    d_stack_traces, d_frame_map, d_allocation_frames, d_tree,
                    d_native_frames, d_thread_names, allocation, history >>

\* the i-th SEGMENT record of a run
SegmentRecord(i) == [vaddr |-> 4096 * i, memsz |-> 256]

\* `std::vector<Segment> segments(num_segments)` holds num_segments
\* value-initialized elements before the loop appends what it reads
SegmentsVector(num_segments) ==
    [i \in 1..num_segments |-> [vaddr |-> 0, memsz |-> 0]]
    \o [i \in 1..num_segments |-> SegmentRecord(i)]

\* parseSegmentHeader with its loop over parseSegment.  `run` says what the
\* source holds after the header fields: "complete" (num_segments SEGMENT
\* records), "truncated" (it ends inside the run) or "badtag" (a tag in the
\* run is not SEGMENT: `assert(record_type == RecordType::SEGMENT)`, and
\* without assertions the bytes are taken as a segment).
parseSegmentHeader(num_segments, complete, run) ==
    LET runOk == complete /\ run # "truncated"
    IN  /\ Dispatch("SEGMENT_HEADER")
        /\ num_segments = 0 => run = "complete"
        /\ ~complete => run = "truncated"
        /\ Consumed([NoRecord EXCEPT !.kind = "SEGMENT_HEADER",
                                     !.count = num_segments], runOk)
        /\ IF ~ReadOk(runOk)
           THEN ReturnFalse(LogsFailure) /\ UNCHANGED d_symbol_resolver
           ELSE IF run = "badtag" /\ assertsEnabled
           THEN Abort /\ UNCHANGED d_symbol_resolver
           ELSE /\ d_symbol_resolver' =
                       addSegments(d_symbol_resolver, "libx", 28672,
                                   SegmentsVector(num_segments))
                /\ Continue
        /\ UNCHANGED << d_stack_traces, d_frame_map, d_allocation_frames,
                        d_tree, d_native_frames, d_thread_names, allocation,
                        history >>

parseThreadRecord(tid, complete) ==
    /\ Dispatch("THREAD_RECORD")
    /\ Consumed([NoRecord EXCEPT !.kind = "THREAD_RECORD", !.tid = tid],
                complete)
    /\ IF ReadOk(complete)
       THEN d_thread_names' = Put(d_thread_names, tid, "main") /\ Continue
       ELSE ReturnFalse(LogsFailure) /\ UNCHANGED d_thread_names
    /\ UNCHANGED << d_stack_traces, d_frame_map, d_allocation_frames, d_tree,
                    d_native_frames, d_symbol_resolver, allocation, history >>

\* the default case of the switch
invalidRecordType ==
    /\ Dispatch("INVALID")
    /\ last' = [NoRecord EXCEPT !.kind = "INVALID", !.ok = TRUE]
    /\ nrec' = nrec + 1
    /\ ReturnFalse(LogsFailure)
    /\ naux' = naux + 1
    /\ UNCHANGED << hostVars, assertsEnabled, hdr, is_open, ended,
                    decoderState, allocation, history >>

Next ==
    \/ RecordReader
    \/ close
    \/ nextAllocationRecord
    \/ readRecordType(MaxRecords)
    \/ \E tid \in Tids, size \in Sizes, py_lineno \in Linenos,
          complete \in BOOLEAN :
         parseAllocationRecord(tid, size, py_lineno, complete)
    \/ \E tid \in Tids, frame_id \in FrameIds, complete \in BOOLEAN :
         parseFramePush(tid, frame_id, complete)
    \/ \E tid \in Tids, count \in PopCounts, complete \in BOOLEAN :
         parseFramePop(tid, count, complete)
    \/ \E frame_id \in FrameIds, def \in FrameDefs, complete \in BOOLEAN :
         parseFrameIndex(frame_id, def, complete)
    \/ \E complete \in BOOLEAN : parseNativeFrameIndex(complete)
    \/ memoryMapStart
    \/ \E num_segments \in 0..MaxSegments, complete \in BOOLEAN,
          run \in {"complete", "truncated", "badtag"} :
         parseSegmentHeader(num_segments, complete, run)
    \/ \E tid \in Tids, complete \in BOOLEAN : parseThreadRecord(tid, complete)
    \/ invalidRecordType

Spec == Init /\ [][Next]_vars

\* The streams of complete frame and allocation records, read from a source
\* that stays open: the behaviours of Spec in which no other record occurs,
\* followed over longer streams.
NextFrames ==
    \/ RecordReader
    \/ nextAllocationRecord
    \/ readRecordType(MaxFrameRecords)
    \/ \E tid \in Tids, size \in Sizes, py_lineno \in Linenos :
         parseAllocationRecord(tid, size, py_lineno, TRUE)
    \/ \E tid \in Tids, frame_id \in FrameIds :
         parseFramePush(tid, frame_id, TRUE)
    \/ \E tid \in Tids, count \in PopCounts :
         parseFramePop(tid, count, TRUE)
    \/ \E frame_id \in FrameIds, def \in FrameDefs :
         parseFrameIndex(frame_id, def, TRUE)

SpecFrames == Init /\ [][NextFrames]_vars

\* The streams of one thread that calls one function from itself and
\* returns, allocating on one line: complete records of tid 7, frame id 8
\* and py_lineno 12, one frame popped at a time, followed over streams long
\* enough for an allocation in a caller and a later one in its callee.
CalleeDef == [function_name |-> "f", filename |-> "a.py", parent_lineno |-> 10]

NextCallee ==
    \/ RecordReader
    \/ nextAllocationRecord
    \/ readRecordType(MaxCalleeRecords)
    \/ parseAllocationRecord(7, 64, 12, TRUE)
    \/ parseFramePush(7, 8, TRUE)
    \/ parseFramePop(7, 1, TRUE)
    \/ parseFrameIndex(8, CalleeDef, TRUE)

SpecCallee == Init /\ [][NextCallee]_vars

\* ------------------------------------------------------------- d_mutex
\* The decoder thread and a foreground thread around d_mutex.  The handling
\* of a record is cut where the code reads from the source, takes the mutex
\* and leaves the scope of its lock_guard; the source is open and holds
\* complete records.  A step of the foreground thread is the taking of the
\* mutex by Py_GetStackFrame or one turn of its loop.
At(stage) == phase = "ready" /\ thread.at = stage

\* the read of the tag at the head of the loop; MEMORY_MAP_START has no
\* payload
threadReadsRecordType(kind) ==
    /\ At("tag")
    /\ nrec < MaxMutexRecords
    /\ nrec' = nrec + 1
    /\ thread' = [NoStep EXCEPT
                     !.kind = kind,
                     !.at = IF kind = "MEMORY_MAP_START" THEN "lock"
                            ELSE "payload"]
    /\ UNCHANGED << d_mutex, query, d_stack_traces, d_frame_map,
                    d_allocation_frames, d_tree, d_symbol_resolver,
                    allocation, delivered, exceptMutex >>

\* where a parser goes once its reads are done
AfterPayload(kind) ==
    CASE kind = "FRAME_PUSH" -> "push_back"
      [] kind = "ALLOCATION" -> "correct"
      [] OTHER -> "lock"

\* the reads of the payload: parseFramePush, parseFrameIndex,
\* parseAllocationRecord, parseSegmentHeader with its parseSegment loop
threadReadsPayload ==
    /\ At("payload")
    /\ \/ /\ thread.kind \in {"FRAME_PUSH"}
          /\ \E frame_id \in FrameIds :
               thread' = [thread EXCEPT !.tid = 7, !.id = frame_id,
                                        !.at = AfterPayload(thread.kind)]
       \/ /\ thread.kind = "FRAME_INDEX"
          /\ \E frame_id \in FrameIds, def \in FrameDefs :
               thread' = [thread EXCEPT !.id = frame_id, !.def = def,
                                        !.at = AfterPayload(thread.kind)]
       \/ /\ thread.kind = "ALLOCATION"
          /\ \E py_lineno \in Linenos :
               thread' = [thread EXCEPT !.tid = 7, !.lineno = py_lineno,
                                        !.at = AfterPayload(thread.kind)]
       \/ /\ thread.kind = "SEGMENT_HEADER"
          /\ \E num_segments \in 0..MaxSegments :
               thread' = [thread EXCEPT !.count = num_segments,
                                        !.at = AfterPayload(thread.kind)]
    /\ UNCHANGED << d_mutex, query, d_stack_traces, d_frame_map,
                    d_allocation_frames, d_tree, d_symbol_resolver,
                    allocation, delivered, nrec, exceptMutex >>

\* `d_stack_traces[tid].push_back(record.frame_id)`
threadPushesFrame ==
    /\ At("push_back")
    /\ d_stack_traces' =
           Put(d_stack_traces, thread.tid,
               Append(StackOf(thread.tid), thread.id))
    /\ thread' = NoStep
    /\ UNCHANGED << d_mutex, query, d_frame_map, d_allocation_frames, d_tree,
                    d_symbol_resolver, allocation, delivered, nrec,
                    exceptMutex >>

\* getAllocationFrameIndex / correctAllocationFrame up to the lock_guard:
\* find, empty(), d_frame_map.at(), d_allocation_frames.getIndex()
threadCorrectsFrame ==
    /\ At("correct")
    /\ LET stack == StackOf(thread.tid)
       IN  IF stack = << >>
           THEN /\ thread' = [thread EXCEPT !.at = "trace"]
                /\ UNCHANGED d_allocation_frames
           ELSE IF Back(stack) \notin DOMAIN d_frame_map
           THEN /\ thread' = NoStep
                /\ UNCHANGED d_allocation_frames
           ELSE LET allocation_frame ==
                        AllocationFrame(d_frame_map[Back(stack)],
                                        thread.lineno)
                    got == getIndex(d_allocation_frames, allocation_frame)
                IN  /\ d_allocation_frames' = got.collection
                    /\ thread' = [thread EXCEPT
                                     !.id = got.index,
                                     !.frame = allocation_frame,
                                     !.at = IF got.is_new THEN "lock"
                                            ELSE "trace"]
    /\ UNCHANGED << d_mutex, query, d_stack_traces, d_frame_map, d_tree,
                    d_symbol_resolver, allocation, delivered, nrec,
                    exceptMutex >>

\* `std::lock_guard<std::mutex> lock(d_mutex)`
threadLocks ==
    /\ At("lock")
    /\ d_mutex = "free"
    /\ d_mutex' = "decoder"
    /\ thread' = [thread EXCEPT !.at = "locked"]
    /\ UNCHANGED << query, d_stack_traces, d_frame_map, d_allocation_frames,
                    d_tree, d_symbol_resolver, allocation, delivered, nrec,
                    exceptMutex >>

\* the statement in the scope of the lock_guard
threadUpdates ==
    /\ At("locked")
    /\ CASE thread.kind = "FRAME_INDEX" ->
              /\ d_frame_map' = Emplace(d_frame_map, thread.id,
                                        CanonicalFrame(thread.def))
              /\ UNCHANGED d_symbol_resolver
         [] thread.kind = "ALLOCATION" ->
              /\ d_frame_map' = Emplace(d_frame_map, thread.id, thread.frame)
              /\ UNCHANGED d_symbol_resolver
         [] thread.kind = "MEMORY_MAP_START" ->
              /\ d_symbol_resolver' = clearSegments(d_symbol_resolver)
              /\ UNCHANGED d_frame_map
         [] thread.kind = "SEGMENT_HEADER" ->
              /\ d_symbol_resolver' =
                     addSegments(d_symbol_resolver, "libx", 28672,
                                 SegmentsVector(thread.count))
              /\ UNCHANGED d_frame_map
    /\ thread' = [thread EXCEPT !.at = "unlock"]
    /\ UNCHANGED << d_mutex, query, d_stack_traces, d_allocation_frames,
                    d_tree, allocation, delivered, nrec, exceptMutex >>

\* the end of the scope of a lock_guard, by return, break or throw
Release_Never(holder) == holder

Release(holder) == "free"

threadUnlocks ==
    /\ At("unlock")
    /\ d_mutex' = Release(d_mutex)
    /\ thread' = IF thread.kind = "ALLOCATION"
                 THEN [thread EXCEPT !.at = "trace"]
                 ELSE NoStep
    /\ UNCHANGED << query, d_stack_traces, d_frame_map, d_allocation_frames,
                    d_tree, d_symbol_resolver, allocation, delivered, nrec,
                    exceptMutex >>

\* `stack.back() = allocation_index`, `return d_tree.getTraceIndex(...)`
\* and the delivery of the Allocation
threadTraces ==
    /\ At("trace")
    /\ LET stack == StackOf(thread.tid)
           corrected == IF stack = << >> THEN stack
                        ELSE [stack EXCEPT ![Len(stack)] = thread.id]
           got == getTraceIndex(d_tree, corrected)
       IN  /\ d_stack_traces' =
                  IF thread.tid \in DOMAIN d_stack_traces
                  THEN [d_stack_traces EXCEPT ![thread.tid] = corrected]
                  ELSE d_stack_traces
           /\ d_tree' = got.tree
           /\ allocation' =
                  Allocation(AllocationRecord(thread.tid, 64, thread.lineno),
                             got.index)
           /\ delivered' = Append(delivered, allocation')
    /\ thread' = NoStep
    /\ UNCHANGED << d_mutex, query, d_frame_map, d_allocation_frames,
                    d_symbol_resolver, nrec, exceptMutex >>

\* Py_GetStackFrame(index, max_stacks) for the index of a delivered
\* allocation: the lock_guard at its head
Py_GetStackFrame(index) ==
    /\ query.at = "idle"
    /\ index # 0
    /\ \E k \in 1..Len(delivered) : delivered[k].frame_index = index
    /\ d_mutex = "free"
    /\ d_mutex' = "query"
    /\ query' = [NoQuery EXCEPT !.at = "walk", !.current_index = index]
    /\ UNCHANGED << thread, d_stack_traces, d_frame_map, d_allocation_frames,
                    d_tree, d_symbol_resolver, allocation, delivered, nrec,
                    exceptMutex >>

\* one turn of its loop: nextNode, d_frame_map.at, PyList_Append; the
\* mutex goes with the return, or with the exception of at()
walkStackFrame ==
    /\ query.at = "walk"
    /\ LET node == d_tree[query.current_index]
       IN  IF node.frame_id \notin DOMAIN d_frame_map
              \/ node.parent_index = 0
           THEN /\ query' = NoQuery
                /\ d_mutex' = Release(d_mutex)
           ELSE /\ query' = [query EXCEPT
                                !.current_index = node.parent_index,
                                !.list = Append(@, node.frame_id)]
                /\ UNCHANGED d_mutex
    /\ UNCHANGED << thread, d_stack_traces, d_frame_map, d_allocation_frames,
                    d_tree, d_symbol_resolver, allocation, delivered, nrec,
                    exceptMutex >>

NextMutex ==
    \/ RecordReader
    \/ \E kind \in { "ALLOCATION", "FRAME_PUSH", "FRAME_INDEX",
                     "MEMORY_MAP_START", "SEGMENT_HEADER" } :
         threadReadsRecordType(kind)
    \/ threadReadsPayload
    \/ threadPushesFrame
    \/ threadCorrectsFrame
    \/ threadLocks
    \/ threadUpdates
    \/ threadUnlocks
    \/ threadTraces
    \/ \E index \in 1..MaxMutexRecords : Py_GetStackFrame(index)
    \/ walkStackFrame

SpecMutex == Init /\ [][NextMutex]_vars

\* -------------------------------------------------------- SocketReader
\* SocketReader of _pensieve.pyx with its BackgroundSocketReader: a worker
\* thread that calls nextAllocationRecord in a loop and appends what it
\* gets to d_allocations under the mutex, and the foreground thread that
\* takes snapshots and leaves the context.  Allocations are numbered in the
\* order in which the decoder delivers them.
WorkerAt(at) == worker' = [worker EXCEPT !.at = at]

\* `self._reader = make_shared[RecordReader](...)`, `self._impl = new
\* BackgroundSocketReader(self._reader)`, `self._impl.start()`
SocketReader__enter__ ==
    /\ main = "new"
    /\ _impl = "NULL"
    /\ _impl' = "started"
    /\ main' = "entered"
    /\ WorkerAt("loop")
    /\ UNCHANGED << is_open, d_mutex, d_stop_thread, d_allocations, decoded,
                    peer, snapshots, blockedAtExit, exceptSocket >>

\* the traced process stops sending, or closes the connection
peerStops ==
    /\ peer = "sending"
    /\ \E p \in {"silent", "closed"} : peer' = p
    /\ UNCHANGED << is_open, d_mutex, _impl, main, worker, d_stop_thread,
                    d_allocations, decoded, snapshots, blockedAtExit,
                    exceptSocket >>

\* the head of the worker's loop
workerTestsStop ==
    /\ worker.at = "loop"
    /\ WorkerAt(IF d_stop_thread THEN "exited" ELSE "next")
    /\ UNCHANGED << is_open, d_mutex, _impl, main, d_stop_thread,
                    d_allocations, decoded, peer, snapshots, blockedAtExit,
                    exceptSocket >>

\* `if (!d_input->read(&record_type, ...)) return false`: a read that
\* fails ends nextAllocationRecord
ReturnsFalse_Never(read_ok) == FALSE

ReturnsFalse(read_ok) == ~read_ok

\* the worker in nextAllocationRecord: the read waits until the peer sent
\* a record, the peer closed the connection or the source is closed
workerNextAllocationRecord ==
    /\ worker.at = "next"
    /\ \/ /\ ReturnsFalse(ReadOk(peer # "closed"))
          /\ WorkerAt("exited")
          /\ UNCHANGED decoded
       \/ /\ ReadOk(peer = "sending")
          /\ decoded < MaxSocketAllocations
          /\ decoded' = decoded + 1
          /\ worker' = [at |-> "lock", native_allocation |-> decoded + 1]
    /\ UNCHANGED << is_open, d_mutex, _impl, main, d_stop_thread,
                    d_allocations, peer, snapshots, blockedAtExit,
                    exceptSocket >>

workerLocks ==
    /\ worker.at = "lock"
    /\ d_mutex = "free"
    /\ d_mutex' = "worker"
    /\ WorkerAt("push_back")
    /\ UNCHANGED << is_open, _impl, main, d_stop_thread, d_allocations,
                    decoded, peer, snapshots, blockedAtExit, exceptSocket >>

\* push_back: the vector grows by a slot, then the slot is written
workerPushesBack ==
    /\ worker.at = "push_back"
    /\ d_allocations' = Append(d_allocations, 0)
    /\ WorkerAt("write")
    /\ UNCHANGED << is_open, d_mutex, _impl, main, d_stop_thread, decoded,
                    peer, snapshots, blockedAtExit, exceptSocket >>

workerWrites ==
    /\ worker.at = "write"
    /\ d_allocations' = [d_allocations EXCEPT
                            ![Len(d_allocations)] = worker.native_allocation]
    /\ WorkerAt("unlock")
    /\ UNCHANGED << is_open, d_mutex, _impl, main, d_stop_thread, decoded,
                    peer, snapshots, blockedAtExit, exceptSocket >>

workerUnlocks ==
    /\ worker.at = "unlock"
    /\ d_mutex' = Release(d_mutex)
    /\ WorkerAt("loop")
    /\ UNCHANGED << is_open, _impl, main, d_stop_thread, d_allocations,
                    decoded, peer, snapshots, blockedAtExit, exceptSocket >>

\* BackgroundSocketReader::Py_GetSnapshotAllocationRecords copies the
\* vector under the mutex
SnapshotMayCopy_Unlocked(mutex) == TRUE

SnapshotMayCopy(mutex) == mutex = "free"

get_current_snapshot ==
    /\ main = "entered"
    /\ _impl # "NULL"
    /\ Len(snapshots) < MaxSnapshots
    /\ SnapshotMayCopy(d_mutex)
    /\ snapshots' = Append(snapshots, d_allocations)
    /\ UNCHANGED << is_open, d_mutex, _impl, main, worker, d_stop_thread,
                    d_allocations, decoded, peer, blockedAtExit,
                    exceptSocket >>

\* `assert self._impl is not NULL`, `self._teardown()`: up to the `del`
SocketReader__exit__ ==
    /\ main = "entered"
    /\ _impl # "NULL"
    /\ main' = "del"
    /\ blockedAtExit' = (worker.at = "next" /\ peer = "silent")
    /\ UNCHANGED << is_open, d_mutex, _impl, worker, d_stop_thread,
                    d_allocations, decoded, peer, snapshots, exceptSocket >>

\* ~BackgroundSocketReader: the source is closed from outside and the
\* worker is told to stop; then the join
deleteImpl ==
    /\ main = "del"
    /\ is_open' = FALSE
    /\ d_stop_thread' = TRUE
    /\ main' = "join"
    /\ UNCHANGED << d_mutex, _impl, worker, d_allocations, decoded, peer,
                    snapshots, blockedAtExit, exceptSocket >>

joinWorker ==
    /\ main = "join"
    /\ worker.at = "exited"
    /\ WorkerAt("joined")
    /\ _impl' = "NULL"
    /\ main' = "close"
    /\ UNCHANGED << is_open, d_mutex, d_stop_thread, d_allocations, decoded,
                    peer, snapshots, blockedAtExit, exceptSocket >>

\* `self._reader.get().close()`, and __exit__ returns
closeReader ==
    /\ main = "close"
    /\ is_open' = FALSE
    /\ main' = "exited"
    /\ UNCHANGED << d_mutex, _impl, worker, d_stop_thread, d_allocations,
                    decoded, peer, snapshots, blockedAtExit, exceptSocket >>

workerSteps ==
    \/ workerTestsStop
    \/ workerNextAllocationRecord
    \/ workerLocks
    \/ workerPushesBack
    \/ workerWrites
    \/ workerUnlocks

teardownSteps == deleteImpl \/ joinWorker \/ closeReader

NextSocket ==
    \/ SocketReader__enter__
    \/ peerStops
    \/ workerTestsStop
    \/ workerNextAllocationRecord
    \/ workerLocks
    \/ workerPushesBack
    \/ workerWrites
    \/ workerUnlocks
    \/ get_current_snapshot
    \/ SocketReader__exit__
    \/ deleteImpl
    \/ joinWorker
    \/ closeReader

SpecSocket == Init /\ [][NextSocket]_vars

\* The threads are scheduled: a worker that can take a step takes one, and
\* so does the foreground thread inside __exit__.  Nothing makes the peer
\* send.
SpecSocketLive ==
    /\ Init
    /\ [][NextSocket]_vars
    /\ WF_vars(workerSteps)
    /\ WF_vars(teardownSteps)

\* ------------------------------------------------------------ FileReader
\* The analytics of a FileReader over the allocations of a capture file:
\* _populate_allocations, _get_high_watermark and
\* get_leaked_allocation_records of _pensieve.pyx, with getHighWatermark and
\* Py_GetSnapshotAllocationRecords as the specification describes them.  An
\* event is an allocation (address, size, index of its stack in the tree) or
\* a deallocation of an address.
Addresses == {1, 2}
EventSizes == {10, 20}
TraceIndexes == {1, 2}

Events ==
    [allocator : {"malloc"}, address : Addresses, size : EventSizes,
     frame_index : TraceIndexes]
    \cup [allocator : {"free"}, address : Addresses, size : {0},
          frame_index : {0}]

\* a tag byte that is no case of the switch of nextAllocationRecord
UnknownTag ==
    [allocator |-> "INVALID", address |-> 0, size |-> 0, frame_index |-> 0]

IsDeallocator(record) == record.allocator = "free"

Drop(f, k) == [x \in DOMAIN f \ {k} |-> f[x]]

\* size_t has no value below 0: 0 - 1 is its largest value, for which the
\* largest integer of the model stands
SIZE_MAX == 2147483647

\* the capture holds one more event, or one more byte that is no tag,
\* before any reader reads it
recordEvent ==
    /\ Len(capture) < MaxEvents
    /\ offset = 0
    /\ iteration = NoIteration
    /\ _native_allocations = << >>
    /\ _high_watermark = << >>
    /\ leaks = << >>
    /\ \E event \in Events \cup {UnknownTag} :
         capture' = Append(capture, event)
    /\ UNCHANGED << offset, _native_allocations, _high_watermark, leaks,
                    iteration, is_open, exceptFile >>

\* where `while reader.nextAllocationRecord(...)` stops when it starts
\* behind `from`: behind the first unknown tag, or at the end of the capture
StopsAt(from) ==
    LET tags == {q \in (from + 1)..Len(capture) : capture[q] = UnknownTag}
    IN  IF tags = {} THEN Len(capture)
        ELSE CHOOSE q \in tags : \A other \in tags : q <= other

\* _populate_allocations: a vector that holds something is left as it is,
\* an empty one takes every allocation the reader delivers until
\* nextAllocationRecord returns false
_populate_allocations(allocations) ==
    IF Len(allocations) # 0
    THEN [allocations |-> allocations, offset |-> offset]
    ELSE [allocations |->
              SelectSeq(SubSeq(capture, offset + 1, StopsAt(offset)),
                        LAMBDA record : record # UnknownTag),
          offset |-> StopsAt(offset)]

\* getHighWatermark: one scan.  current_memory grows by the size of every
\* allocation, whose size is recorded under its address; a deallocation of
\* a recorded address takes the recorded size away and drops the address;
\* the peak is the largest current_memory and the (0-based) index of the
\* allocation that produced it.
RECURSIVE ScanWatermark(_, _, _, _, _)
ScanWatermark(records, i, ptr_to_size, current_memory, result) ==
    IF i > Len(records)
    THEN result
    ELSE LET record == records[i] IN
         IF IsDeallocator(record)
         THEN IF record.address \in DOMAIN ptr_to_size
              THEN ScanWatermark(records, i + 1,
                                 Drop(ptr_to_size, record.address),
                                 current_memory - ptr_to_size[record.address],
                                 result)
              ELSE ScanWatermark(records, i + 1, ptr_to_size,
                                 current_memory, result)
         ELSE LET memory == current_memory + record.size
                  peak == IF memory >= result.peak_memory
                          THEN [index |-> i - 1, peak_memory |-> memory]
                          ELSE result
              IN  ScanWatermark(records, i + 1,
                                Put(ptr_to_size, record.address, record.size),
                                memory, peak)

getHighWatermark(records) ==
    ScanWatermark(records, 1, << >>, 0, [index |-> 0, peak_memory |-> 0])

\* _get_high_watermark, as the metadata property and
\* get_high_watermark_allocation_records call it: computed once, then kept
_get_high_watermark ==
    /\ _native_allocations' =
         _populate_allocations(_native_allocations).allocations
    /\ offset' = _populate_allocations(_native_allocations).offset
    /\ _high_watermark' =
         IF _high_watermark = << >>
         THEN << getHighWatermark(_native_allocations') >>
         ELSE _high_watermark
    /\ UNCHANGED << capture, leaks, iteration, is_open, exceptFile >>

\* the snapshot at an index: the events 0..index are replayed; an
\* allocation takes the place of whatever its address held, a deallocation
\* empties its address.  The result maps each live address to the position
\* of its allocation.
RECURSIVE ReplaySnapshot(_, _, _, _)
ReplaySnapshot(records, i, index, ptr_to_allocation) ==
    IF i > Len(records) \/ i - 1 > index
    THEN ptr_to_allocation
    ELSE LET record == records[i] IN
         IF IsDeallocator(record)
         THEN ReplaySnapshot(records, i + 1, index,
                             Drop(ptr_to_allocation, record.address))
         ELSE ReplaySnapshot(records, i + 1, index,
                             Put(ptr_to_allocation, record.address, i))

RECURSIVE TotalSize(_, _)
TotalSize(records, positions) ==
    IF positions = {}
    THEN 0
    ELSE LET p == CHOOSE q \in positions : TRUE
         IN  records[p].size + TotalSize(records, positions \ {p})

\* the rows of a snapshot with merge_threads: the allocations at
\* `positions`, grouped by (index of the stack, allocator)
Rows(records, positions) ==
    LET KeyOf(p) == << records[p].frame_index, records[p].allocator >>
        Group(key) == {p \in positions : KeyOf(p) = key}
    IN  [key \in {KeyOf(p) : p \in positions} |->
            [n_allocations |-> Cardinality(Group(key)),
             size |-> TotalSize(records, Group(key))]]

Py_GetSnapshotAllocationRecords(records, index) ==
    LET live == ReplaySnapshot(records, 1, index, << >>)
    IN  Rows(records, {live[address] : address \in DOMAIN live})

LastIndex_Skipped(size) == IF size < 2 THEN SIZE_MAX ELSE size - 2

\* self._native_allocations.size() - 1, a size_t
LastIndex(size) == IF size = 0 THEN SIZE_MAX ELSE size - 1

\* FileReader.close: the source of the reader is closed
FileReader_close ==
    /\ is_open
    /\ is_open' = FALSE
    /\ UNCHANGED << fileVars, exceptFile >>

_ensure_reader_is_open_Never(open) == "ok"

\* _ensure_reader_is_open: raises if the reader's source is not open
_ensure_reader_is_open(open) == IF open THEN "ok" ELSE "ValueError"

\* a records method may be called once the generator of the last call is
\* exhausted or has raised
MayIterate == iteration.at \in {"none", "raised", "stopped"}

Raised(of, exception) ==
    [NoIteration EXCEPT !.of = of, !.at = "raised", !.raised = exception]

\* _yield_allocations reaches its first `yield`, or its end: `rows` are
\* the rows of Py_GetSnapshotAllocationRecords, yielded in some order
FirstYield(of, rows) ==
    IF DOMAIN rows = {}
    THEN iteration' = [NoIteration EXCEPT !.of = of, !.at = "stopped"]
    ELSE \E key \in DOMAIN rows :
           iteration' = [of |-> of, at |-> "yielded",
                         pending |-> DOMAIN rows \ {key}, yielded |-> 1,
                         raised |-> "none"]

\* get_leaked_allocation_records, a generator, run from its call to its
\* first yield
get_leaked_allocation_records ==
    /\ MayIterate
    /\ IF _ensure_reader_is_open(is_open) # "ok"
       THEN /\ iteration' = Raised("leaked", _ensure_reader_is_open(is_open))
            /\ UNCHANGED << offset, _native_allocations, leaks >>
       ELSE /\ _native_allocations' =
                 _populate_allocations(_native_allocations).allocations
            /\ offset' = _populate_allocations(_native_allocations).offset
            /\ LET snapshot_index == LastIndex(Len(_native_allocations'))
               IN  leaks' =
                     << Py_GetSnapshotAllocationRecords(_native_allocations',
                                                        snapshot_index) >>
            /\ FirstYield("leaked", leaks'[1])
    /\ UNCHANGED << capture, _high_watermark, is_open, exceptFile >>

\* get_high_watermark_allocation_records, run from its call to its first
\* yield
get_high_watermark_allocation_records ==
    /\ MayIterate
    /\ IF _ensure_reader_is_open(is_open) # "ok"
       THEN /\ iteration' =
                 Raised("watermark", _ensure_reader_is_open(is_open))
            /\ UNCHANGED << offset, _native_allocations, _high_watermark >>
       ELSE /\ _native_allocations' =
                 _populate_allocations(_native_allocations).allocations
            /\ offset' = _populate_allocations(_native_allocations).offset
            /\ _high_watermark' =
                 IF _high_watermark = << >>
                 THEN << getHighWatermark(_native_allocations') >>
                 ELSE _high_watermark
            /\ FirstYield("watermark",
                          Py_GetSnapshotAllocationRecords(
                              _native_allocations', _high_watermark'[1].index))
    /\ UNCHANGED << capture, leaks, is_open, exceptFile >>

\* the generator is resumed behind its `yield`: _ensure_reader_is_open,
\* then the next row or the end of the loop
resumeIteration ==
    /\ iteration.at = "yielded"
    /\ IF _ensure_reader_is_open(is_open) # "ok"
       THEN iteration' = [iteration EXCEPT
                             !.at = "raised",
                             !.raised = _ensure_reader_is_open(is_open)]
       ELSE IF iteration.pending = {}
       THEN iteration' = [iteration EXCEPT !.at = "stopped"]
       ELSE \E key \in iteration.pending :
              iteration' = [iteration EXCEPT
                               !.pending = @ \ {key}, !.yielded = @ + 1]
    /\ UNCHANGED << capture, offset, _native_allocations, _high_watermark,
                    leaks, is_open, exceptFile >>

NextFile ==
    \/ recordEvent
    \/ _get_high_watermark
    \/ get_leaked_allocation_records
    \/ get_high_watermark_allocation_records
    \/ resumeIteration
    \/ FileReader_close

SpecFile == Init /\ [][NextFile]_vars

\* ------------------------------------------------------ AllocationRecord
\* AllocationRecord.stack_trace of _pensieve.pyx over RecordReader::
\* Py_GetStackFrame, for the records of a reader that decodes complete
\* frame and allocation records of one thread; the reader is asked between
\* two calls of nextAllocationRecord.

\* Frame::toPythonObject(cache, lineno): (function_name, filename, lineno)
toPythonObject(frame, lineno) ==
    << frame.function_name, frame.filename, lineno >>

\* the loop of Py_GetStackFrame; d_frame_map.at throws for an id that has
\* no frame, and the list is lost
RECURSIVE GetStackFrameLoop(_, _, _, _, _)
GetStackFrameLoop(current_index, stacks_obtained, max_stacks, current_lineno, list) ==
    IF current_index = 0 \/ stacks_obtained = max_stacks
    THEN [throws |-> FALSE, list |-> list]
    ELSE LET node == d_tree[current_index] IN
         IF node.frame_id \notin DOMAIN d_frame_map
         THEN [throws |-> TRUE, list |-> << >>]
         ELSE LET frame == d_frame_map[node.frame_id]
              IN  GetStackFrameLoop(
                      node.parent_index, stacks_obtained + 1, max_stacks,
                      frame.parent_lineno,
                      Append(list, toPythonObject(frame, current_lineno)))

GetStackFrame_NoLimit(index, max_stacks) ==
    GetStackFrameLoop(index, 0, SIZE_MAX, -1, << >>)

GetStackFrame(index, max_stacks) ==
    GetStackFrameLoop(index, 0, max_stacks, -1, << >>)

\* the values of max_stacks; None takes the default of Py_GetStackFrame,
\* the largest size_t
StackLimits == {0, 1, 2, SIZE_MAX}

\* an AllocationRecord is made for a delivered allocation
yieldAllocationRecord(k) ==
    /\ pc = "idle"
    /\ k \in 1..Len(delivered)
    /\ delivered[k].frame_index # 0
    /\ _tuple.stack_id # delivered[k].frame_index
    /\ _tuple' = [stack_id |-> delivered[k].frame_index]
    /\ _stack_trace' = << >>
    /\ traced' = NotTraced
    /\ UNCHANGED exceptRecord

\* `if self._stack_trace is None:` fails: the list of an earlier call is kept
KeepsTrace(cached) == cached # << >>

stack_trace(max_stacks) ==
    /\ pc = "idle"
    /\ _tuple.stack_id # 0
    /\ traced.calls < MaxTraceCalls
    /\ IF KeepsTrace(_stack_trace)
       THEN /\ traced' = [max_stacks |-> max_stacks,
                          returned |-> _stack_trace[1], raised |-> "none",
                          calls |-> traced.calls + 1]
            /\ UNCHANGED _stack_trace
       ELSE LET got == GetStackFrame(_tuple.stack_id, max_stacks)
            IN  IF got.throws
                THEN /\ traced' = [max_stacks |-> max_stacks,
                                   returned |-> << >>,
                                   raised |-> "std::out_of_range",
                                   calls |-> traced.calls + 1]
                     /\ UNCHANGED _stack_trace
                ELSE /\ traced' = [max_stacks |-> max_stacks,
                                   returned |-> got.list, raised |-> "none",
                                   calls |-> traced.calls + 1]
                     /\ _stack_trace' = << got.list >>
    /\ UNCHANGED << _tuple, exceptRecord >>

TraceDef(frame_id) ==
    IF frame_id = 1
    THEN [function_name |-> "f", filename |-> "a.py", parent_lineno |-> 10]
    ELSE [function_name |-> "g", filename |-> "b.py", parent_lineno |-> 20]

NextTrace ==
    \/ RecordReader
    \/ nextAllocationRecord
    \/ readRecordType(MaxTraceRecords)
    \/ parseAllocationRecord(7, 64, 12, TRUE)
    \/ \E frame_id \in FrameIds : parseFramePush(7, frame_id, TRUE)
    \/ \E frame_id \in FrameIds :
         parseFrameIndex(frame_id, TraceDef(frame_id), TRUE)
    \/ \E k \in 1..MaxTraceRecords : yieldAllocationRecord(k)
    \/ \E max_stacks \in StackLimits : stack_trace(max_stacks)

SpecTrace == Init /\ [][NextTrace]_vars

\* --------------------------------------------------- hybrid_stack_trace
\* AllocationRecord.hybrid_stack_trace of _pensieve.pyx, over the lists
\* stack_trace and native_stack_trace return for one allocation.  A frame
\* is (function or symbol, file, lineno).
PythonFrames ==
    { << "f", "a.py", 12 >>, << "g", "b.py", 20 >>, << "h", "x.pyx", 5 >> }
NativeFrames ==
    { << "_PyEval_EvalFrameDefault", "ceval.c", 0 >>,
      << "malloc", "libc.so", 0 >>, << "do_call", "libx", 0 >> }

\* `"_PyEval_EvalFrameDefault" in symbol`
_is_eval_frame(symbol) == symbol = "_PyEval_EvalFrameDefault"

\* `file.endswith(".pyx")`
EndsWithPyx(file) == file = "x.pyx"

_pure_python_stack_trace(stack) ==
    SelectSeq(stack, LAMBDA frame : ~EndsWithPyx(frame[2]))

\* the allocation has one more interpreter frame, or one more native frame
pythonFrame ==
    /\ hybrid = << >>
    /\ Len(python_stack) < MaxHybridFrames
    /\ \E frame \in PythonFrames : python_stack' = Append(python_stack, frame)
    /\ UNCHANGED << native_stack, hybrid, exceptHybrid >>

nativeFrame ==
    /\ hybrid = << >>
    /\ Len(native_stack) < MaxHybridFrames
    /\ \E frame \in NativeFrames : native_stack' = Append(native_stack, frame)
    /\ UNCHANGED << python_stack, hybrid, exceptHybrid >>

Hybrid(yielded, raised) == [yielded |-> yielded, raised |-> raised]

\* the loop over the native frames: `left` is n_python_frames_left ("None"
\* for an empty pure stack), `used` the frames taken from the iterator.
\* next() on the exhausted iterator raises StopIteration inside the
\* generator, which `stop` says what the build makes of: a RuntimeError, or
\* the silent end of the generator.
RECURSIVE HybridLoop(_, _, _, _, _, _)
HybridLoop(pure, i, left, used, yielded, stop) ==
    IF i > Len(native_stack) THEN Hybrid(yielded, "none")
    ELSE IF left = << 0 >> THEN Hybrid(yielded, "none")
    ELSE IF _is_eval_frame(native_stack[i][1])
    THEN IF used = Len(pure)
         THEN Hybrid(yielded, stop)
         ELSE HybridLoop(pure, i + 1, << left[1] - 1 >>, used + 1,
                         Append(yielded, pure[used + 1]), stop)
    ELSE HybridLoop(pure, i + 1, left, used,
                    Append(yielded, native_stack[i]), stop)

\* hybrid_stack_trace, iterated to its end; n_python_frames_left is << n >>
\* or << >> for None
hybrid_stack_trace ==
    /\ hybrid = << >>
    /\ LET pure == _pure_python_stack_trace(python_stack)
           left == IF pure # << >> THEN << Len(pure) >> ELSE << >>
       IN  \E stop \in {"RuntimeError", "none"} :
             hybrid' = << HybridLoop(pure, 1, left, 0, << >>, stop) >>
    /\ UNCHANGED << python_stack, native_stack, exceptHybrid >>

NextHybrid ==
    \/ pythonFrame
    \/ nativeFrame
    \/ hybrid_stack_trace

SpecHybrid == Init /\ [][NextHybrid]_vars

\* ------------------------------------------------------------- Tracker
\* Tracker.__enter__ and __exit__ of _pensieve.pyx, called by the threads of
\* the process through `with` statements: __exit__ runs for a Tracker whose
\* __enter__ returned.  __enter__ calls threading.setprofile, a function
\* written in Python, in which the interpreter may switch threads, so the
\* part before that call and the part from it on are two steps.
Calling(th, at, self, raised) ==
    caller' = [caller EXCEPT ![th] = [at |-> at, self |-> self,
                                      raised |-> raised]]

\* `if _TRACKER.get() != NULL: raise RuntimeError(...)`
AnotherTrackerActive_Always == TRUE

AnotherTrackerActive == _TRACKER # "NULL"

\* from the call to the reading of the previous hooks
__enter__(th, self) ==
    /\ caller[th].at = "idle"
    /\ IF AnotherTrackerActive
       THEN /\ Calling(th, "idle", self, "RuntimeError: active")
            /\ refused' = refused \cup {self}
            /\ UNCHANGED << _writer, _previous_thread_profile_func >>
       ELSE IF ~_writer[self]
       THEN /\ Calling(th, "idle", self, "RuntimeError: stale")
            /\ UNCHANGED << _writer, _previous_thread_profile_func, refused >>
       ELSE /\ _writer' = [_writer EXCEPT ![self] = FALSE]
            /\ _previous_thread_profile_func' =
                   [_previous_thread_profile_func EXCEPT
                       ![self] = _profile_hook]
            /\ Calling(th, "setprofile", self, "none")
            /\ UNCHANGED refused
    /\ UNCHANGED << _TRACKER, _profile_hook, exceptTracker >>

\* `threading.setprofile(start_thread_trace)`, `_TRACKER.reset(new
\* NativeTracker(...))`, `return self`
installTracker(th) ==
    /\ caller[th].at = "setprofile"
    /\ _profile_hook' = "start_thread_trace"
    /\ _TRACKER' = caller[th].self
    /\ Calling(th, "with", caller[th].self, "none")
    /\ UNCHANGED << _writer, _previous_thread_profile_func, refused,
                    exceptTracker >>

__exit__(th) ==
    /\ caller[th].at = "with"
    /\ _TRACKER' = "NULL"
    /\ _profile_hook' = _previous_thread_profile_func[caller[th].self]
    /\ Calling(th, "idle", "NULL", "none")
    /\ UNCHANGED << _writer, _previous_thread_profile_func, refused,
                    exceptTracker >>

\* a new Tracker object takes the place of one that is no longer in use
Tracker(self) ==
    /\ ~_writer[self]
    /\ _TRACKER # self
    /\ \A th \in Threads : caller[th].self # self
    /\ _writer' = [_writer EXCEPT ![self] = TRUE]
    /\ _previous_thread_profile_func' =
           [_previous_thread_profile_func EXCEPT ![self] = "unset"]
    /\ refused' = refused \ {self}
    /\ UNCHANGED << _TRACKER, _profile_hook, caller, exceptTracker >>

NextTracker ==
    \/ \E th \in Threads, self \in Trackers : __enter__(th, self)
    \/ \E th \in Threads : installTracker(th)
    \/ \E th \in Threads : __exit__(th)
    \/ \E self \in Trackers : Tracker(self)

SpecTracker == Init /\ [][NextTracker]_vars

\* ================================================================ claims

\* C1 (as claimed): the k-th call of nextAllocationRecord that returns true
\* delivers the k-th ALLOCATION record of the stream, with its fields
\* unaltered; no ALLOCATION record is skipped, duplicated or reordered.
C1_KthDeliveryIsKthAllocation ==
    /\ Len(delivered) <= Len(wireAllocs)
    /\ \A k \in 1..Len(delivered) :
         k <= Len(wireAllocs) => delivered[k].record = wireAllocs[k]

\* C2: a header with wrong magic bytes, with a version other than
\* CURRENT_HEADER_VERSION or with a field missing makes the constructor
\* throw: there is no decoder object, and no record is read.
HeaderBad(h) ==
    \/ h.avail < 6
    \/ ~h.magicOk
    \/ h.version # "CURRENT_HEADER_VERSION"

C2_BadHeaderFailsConstructor ==
    (phase # "new" /\ HeaderBad(hdr))
        => (phase = "ctor_failed" /\ pc = "idle" /\ ret = "none" /\ nrec = 0)

C2_Witness_VersionMismatch ==
    /\ phase = "ctor_failed"
    /\ hdr.avail = 6 /\ hdr.magicOk /\ hdr.version = "OTHER_VERSION"

\* C3: as long as no FRAME_POP popped more than its stack held, the stack of
\* every tid is as long as the number of its FRAME_PUSH records minus the
\* sum of the counts of its FRAME_POP records; so no other record type,
\* ALLOCATION with its specialization included, changes a length.
C3_StackLengthIsPushesMinusPops ==
    ~underpop => \A t \in Tids : Len(StackOf(t)) = nPush[t] - nPop[t]

C3_Witness_PushedAndPopped ==
    /\ ~underpop
    /\ \E t \in Tids : nPush[t] = 2 /\ nPop[t] = 1 /\ Len(StackOf(t)) = 1

\* C4 (as claimed): a FRAME_POP whose count exceeds the length of its tid's
\* stack is detected: the decoder stops instead of going on to the next
\* record.
C4_UnderPopStopsDecoder ==
    [][ ( /\ nrec' = nrec + 1
          /\ last'.kind = "FRAME_POP" /\ last'.ok
          /\ last'.count > Len(StackOf(last'.tid)) )
        => ret' \in {"throw", "abort", "false"} ]_vars

\* C5 (as claimed): a FRAME_POP with count 0 is no error and changes no
\* stack, for every tid, one with an empty stack or never seen included.
C5_PopZeroIsNoOp ==
    [][ ( /\ nrec' = nrec + 1
          /\ last'.kind = "FRAME_POP" /\ last'.ok
          /\ last'.count = 0 )
        => ( /\ ret' = "none" /\ phase' = "ready"
             /\ \A t \in Tids : StackOf(t)' = StackOf(t) ) ]_vars

\* C6: a FRAME_INDEX whose frame_id is already in d_frame_map throws to the
\* caller and leaves d_frame_map as it was.
C6_DuplicateFrameIndexThrows ==
    [][ ( /\ nrec' = nrec + 1
          /\ last'.kind = "FRAME_INDEX" /\ last'.ok
          /\ last'.id \in DOMAIN d_frame_map )
        => (ret' = "throw" /\ pc' = "idle" /\ d_frame_map' = d_frame_map)
      ]_vars

C6_Witness_DuplicateRejected ==
    /\ last.kind = "FRAME_INDEX" /\ last.ok /\ ret = "throw"
    /\ last.id \in baseIds

\* C7 (as claimed): an unknown tag ends the call with a result that differs
\* from the result of a clean end of stream, which is `false`.
C7_UnknownTagDiffersFromEndOfStream ==
    [][ (nrec' = nrec + 1 /\ last'.kind = "INVALID")
        => ret' \in {"throw", "abort"} ]_vars

\* C8: a failed read of the tag returns false, logs nothing and leaves the
\* decoder state alone; a failed read inside a payload returns false and
\* logs exactly if the source is open.
C8_EndOfStream ==
    [][ /\ (pc = "tag" /\ pc' = "idle")
           => ( /\ ret' = "false" /\ ~logged'
                /\ decoderState' = decoderState
                /\ allocation' = allocation )
        /\ (pc = "payload" /\ nrec' = nrec + 1 /\ ~last'.ok)
           => (ret' = "false" /\ pc' = "idle" /\ (logged' <=> is_open))
      ]_vars

C8_Witness_TruncatedPayloadLogged ==
    /\ last.kind = "ALLOCATION" /\ ~last.ok
    /\ ended /\ is_open /\ ret = "false" /\ logged

\* C9: an ALLOCATION whose tid has an empty stack (never pushed to, or all
\* pushes popped) is delivered with index 0 and adds no tree node and no
\* d_frame_map entry.
C9_EmptyStackAllocation ==
    [][ ( /\ nrec' = nrec + 1
          /\ last'.kind = "ALLOCATION" /\ last'.ok
          /\ ~underpop
          /\ StackOf(last'.tid) = << >> )
        => ( /\ ret' = "true"
             /\ allocation'.frame_index = 0
             /\ delivered' = Append(delivered, allocation')
             /\ d_tree' = d_tree
             /\ d_frame_map' = d_frame_map ) ]_vars

C9_Witness_AllPushesPopped ==
    /\ last.kind = "ALLOCATION" /\ last.ok /\ ret = "true"
    /\ ~underpop
    /\ nPush[last.tid] > 0 /\ StackOf(last.tid) = << >>
    /\ allocation.frame_index = 0

\* C10 (as claimed): of two ALLOCATION records of one tid with no
\* FRAME_PUSH / FRAME_POP of that tid between them and a non-empty stack,
\* the indices are equal exactly if the py_lineno values are, and the frame
\* at the top of either path is the canonical top frame with lineno set to
\* the record's py_lineno.
IsSpecialized(frame, canonical, lineno) ==
    /\ frame.function_name = canonical.function_name
    /\ frame.filename = canonical.filename
    /\ frame.parent_lineno = canonical.parent_lineno
    /\ frame.lineno = lineno

C10_SameStackAllocations ==
    [][ ( /\ nrec' = nrec + 1
          /\ last'.kind = "ALLOCATION" /\ last'.ok /\ ret' = "true"
          /\ ~underpop
          /\ prevAlloc[last'.tid].valid
          /\ Back(pushed[last'.tid]) \in baseIds )
        => LET t == last'.tid
               prev == prevAlloc[t]
               index == allocation'.frame_index
               canonical == d_frame_map[Back(pushed[t])]
           IN  /\ (prev.lineno = last'.lineno) <=> (prev.index = index)
               /\ IsSpecialized(d_frame_map'[d_tree'[index].frame_id],
                                canonical, last'.lineno)
               /\ IsSpecialized(d_frame_map'[d_tree'[prev.index].frame_id],
                                canonical, prev.lineno) ]_vars

\* C11 (as claimed): the ids that specialization interned are no ids of
\* FRAME_INDEX records, every specialized frame is what d_frame_map holds
\* under its id, and a FRAME_INDEX is rejected as duplicate only if an
\* earlier FRAME_INDEX defined its id.
C11_SpecializedIdsDisjoint ==
    /\ \A frame \in DOMAIN d_allocation_frames :
         /\ d_allocation_frames[frame] \notin baseIds
         /\ d_frame_map[d_allocation_frames[frame]] = frame
    /\ (last.kind = "FRAME_INDEX" /\ last.ok /\ ret = "throw")
           => last.id \in baseIds

\* C12 (as claimed): a SEGMENT_HEADER with count N and its N SEGMENT records
\* register one LoadedObject with the header's filename and base address
\* whose segments are exactly the N segments read, in stream order.
C12_SegmentHeaderRegistersItsSegments ==
    [][ ( /\ nrec' = nrec + 1
          /\ last'.kind = "SEGMENT_HEADER" /\ last'.ok /\ ret' = "none" )
        => LET objects == d_symbol_resolver.objects
               after == d_symbol_resolver'.objects
           IN  /\ Len(after) = Len(objects) + 1
               /\ SubSeq(after, 1, Len(objects)) = objects
               /\ Back(after).filename = "libx"
               /\ Back(after).addr = 28672
               /\ Back(after).segments =
                      [i \in 1..last'.count |-> SegmentRecord(i)] ]_vars

\* C13: a delivered Allocation carries the resolver generation current when
\* its record is processed; MEMORY_MAP_START raises the generation by one,
\* no other record changes it, so the generations of the delivered
\* allocations never decrease.
C13_GenerationStamp ==
    [][ LET generation == d_symbol_resolver.generation
        IN  /\ (nrec' = nrec + 1 /\ last'.kind = "MEMORY_MAP_START")
                   => d_symbol_resolver'.generation = generation + 1
            /\ (nrec' = nrec + 1 /\ last'.kind # "MEMORY_MAP_START")
                   => d_symbol_resolver'.generation = generation
            /\ nrec' = nrec => d_symbol_resolver'.generation = generation
            /\ delivered' # delivered
                   => /\ delivered' = Append(delivered, allocation')
                      /\ allocation'.native_segment_generation = generation
                      /\ delivered # << >> =>
                           Back(delivered).native_segment_generation
                               <= allocation'.native_segment_generation
      ]_vars

C13_Witness_StampAfterMemoryMapStart ==
    /\ Len(delivered) = 2
    /\ delivered[1].native_segment_generation = 0
    /\ delivered[2].native_segment_generation = 1
    /\ last.kind = "ALLOCATION" /\ ret = "true"

\* C14 (as claimed): a Tracker whose __enter__ returned and whose __exit__
\* has not run is the active one, so at most one is in that state; and
\* an __enter__ called while a Tracker is active raises and installs nothing.
InsideWith(self) ==
    \E th \in Threads : caller[th].at = "with" /\ caller[th].self = self

C14_AtMostOneActiveTracker ==
    [][ /\ \A self \in Trackers : InsideWith(self)' => _TRACKER' = self
        /\ \A th \in Threads :
             ( /\ caller[th].at = "idle" /\ caller'[th] # caller[th]
               /\ _TRACKER # "NULL" )
             => ( /\ caller'[th].at = "idle"
                  /\ caller'[th].raised = "RuntimeError: active"
                  /\ UNCHANGED << _TRACKER, _writer, _profile_hook,
                                  _previous_thread_profile_func >> )
      ]_vars

\* C15 (as claimed): while the foreground thread is inside a trace query,
\* that is, holds d_mutex, the decoder thread changes neither d_frame_map
\* nor the stack tree nor the symbol resolver.
C15_NoMutationDuringQuery ==
    [][ d_mutex = "query"
        => UNCHANGED << d_frame_map, d_tree, d_symbol_resolver >> ]_vars

\* C16: the decoder thread does not hold d_mutex when it reads from the
\* source: not when a read starts, not while it waits in one.
SourceRead(at) == at \in {"tag", "payload"}

C16_NoMutexAcrossRead ==
    [][ /\ SourceRead(thread'.at) => d_mutex' # "decoder"
        /\ (SourceRead(thread.at) /\ thread' # thread)
               => (d_mutex # "decoder" /\ d_mutex' # "decoder") ]_vars

C16_Witness_QueryWhileDecoderReads ==
    /\ thread.at = "payload" /\ thread.kind = "FRAME_INDEX"
    /\ d_mutex = "query"
    /\ d_frame_map # << >>

\* C17: the vector a snapshot is computed from is the first k allocations
\* the decoder delivered, in wire order and all completely written, and a
\* later snapshot has no smaller k.
FirstDelivered(k) == [i \in 1..k |-> i]

C17_SnapshotIsPrefix ==
    \A j \in 1..Len(snapshots) :
        /\ Len(snapshots[j]) <= decoded
        /\ snapshots[j] = FirstDelivered(Len(snapshots[j]))
        /\ \A i \in 1..j : Len(snapshots[i]) <= Len(snapshots[j])

C17_Witness_SnapshotsWhileDecoding ==
    /\ Len(snapshots) = 2
    /\ Len(snapshots[1]) = 1 /\ Len(snapshots[2]) = 2
    /\ worker.at = "write" /\ main = "entered"

EventsAt(records, address, i) ==
    {p \in 1..i : records[p].address = address}

\* the position of the last event of 1..i at `address`
LastEventAt(records, address, i) ==
    CHOOSE p \in EventsAt(records, address, i) :
        \A q \in EventsAt(records, address, i) : q <= p

\* the addresses live after event i: their last event up to i is an
\* allocation; each stands with the position of that allocation
LiveAfter(records, i) ==
    {LastEventAt(records, address, i) :
        address \in {a \in Addresses :
                        /\ EventsAt(records, a, i) # {}
                        /\ ~IsDeallocator(records[LastEventAt(records, a, i)])}}

LiveBytesAfter(records, i) == TotalSize(records, LiveAfter(records, i))

\* C19: the peak_memory of the high watermark is the maximum, over the
\* events i, of the sum of the sizes of the addresses live after event i (an
\* address is live if its last event up to i is an allocation), and the
\* reported index is one at which that maximum is reached; deallocations of
\* addresses that hold nothing, not being the last allocation of any
\* address, change no such sum.
C19_PeakIsMaxLiveBytes ==
    [][_high_watermark' # _high_watermark =>
        LET records == _native_allocations'
            watermark == _high_watermark'[1]
            timeline == {LiveBytesAfter(records, i) : i \in 1..Len(records)}
        IN  /\ \A bytes \in timeline : bytes <= watermark.peak_memory
            /\ watermark.peak_memory \in timeline \cup {0}
            /\ Len(records) > 0 =>
                 /\ watermark.index + 1 \in 1..Len(records)
                 /\ LiveBytesAfter(records, watermark.index + 1)
                        = watermark.peak_memory
      ]_vars

\* the allocations no later event of the stream deallocates
NotDeallocatedLater(records) ==
    {p \in 1..Len(records) :
        /\ ~IsDeallocator(records[p])
        /\ \A q \in (p + 1)..Len(records) :
              ~(IsDeallocator(records[q])
                /\ records[q].address = records[p].address)}

\* the allocations whose address no later event of the stream touches
LastOfTheirAddress(records) ==
    {p \in 1..Len(records) :
        /\ ~IsDeallocator(records[p])
        /\ \A q \in (p + 1)..Len(records) :
              records[q].address # records[p].address}

C22_LazyFrameIndexDecodes ==
    [][(nrec' = nrec + 1 /\ last'.ok) =>
         /\ last'.kind = "FRAME_PUSH" =>
              /\ d_stack_traces'[last'.tid]
                     = Append(StackOf(last'.tid), last'.id)
              /\ d_frame_map' = d_frame_map
              /\ ret' = "none"
         /\ (last'.kind = "ALLOCATION" /\ ~underpop) =>
              /\ ret' = "true"
              /\ Len(delivered') = Len(delivered) + 1
         /\ (last'.kind = "FRAME_INDEX"
             /\ last'.id \notin DOMAIN d_frame_map) =>
              /\ ret' = "none"
              /\ last'.id \in DOMAIN d_frame_map'
      ]_vars


\* C25: two delivered allocations of one tid that were processed with the
\* same sequence of pushed and not yet popped frame ids and carry the same
\* py_lineno have the same stack-tree index, whatever records were processed
\* between them.
C25_SameStackSameIndex ==
    ~underpop =>
        \A i \in 1..Len(delivered), j \in 1..Len(delivered) :
            ( /\ delivered[i].record.tid = delivered[j].record.tid
              /\ delivered[i].record.py_lineno = delivered[j].record.py_lineno
              /\ stackAt[i] = stackAt[j] )
            => delivered[i].frame_index = delivered[j].frame_index


\* the record consumed last made its call return false: its tag is no case
\* of the switch, or the source did not hold all of its bytes
Offending(r) == r.kind = "INVALID" \/ (r.kind # "NONE" /\ ~r.ok)

\* C26: once a call has returned false because of an unknown tag or a
\* truncated record, no later call consumes a record or delivers an
\* allocation: every later call returns false.
C26_FailureIsFinal ==
    [][Offending(last) =>
         /\ nrec' = nrec
         /\ delivered' = delivered
         /\ ret' \in {"none", "false"}
      ]_vars


\* C29: the snapshot index get_leaked_allocation_records computes, the
\* number of materialized allocations minus one as a size_t, is an index
\* into the allocation vector: 0 <= index < size, for every capture.
C29_LeakIndexIsValid ==
    [][leaks' # leaks =>
         LET size == Len(_native_allocations')
             snapshot_index == LastIndex(size)
         IN  0 <= snapshot_index /\ snapshot_index < size
      ]_vars


\* C27: a step of the iteration of get_high_watermark_allocation_records
\* or get_leaked_allocation_records that is taken when the FileReader is
\* closed raises ValueError and yields nothing: the first step of an
\* iteration begun after close() yields no record at all, and after a
\* close() during an iteration no further record is yielded.  A generator
\* that has raised yields nothing more.
C27_ClosedReaderRaises ==
    [][iteration' # iteration =>
         /\ ~is_open =>
              /\ iteration'.at = "raised"
              /\ iteration'.raised = "ValueError"
              /\ iteration'.yielded =
                   IF MayIterate THEN 0 ELSE iteration.yielded
         /\ iteration'.at = "raised" => ~is_open
      ]_vars

\* an iteration that had yielded one of several rows was resumed after
\* close() and raised
C27_Witness_ClosedWhileIterating ==
    /\ ~is_open
    /\ iteration.at = "raised"
    /\ iteration.yielded = 1
    /\ iteration.pending # {}


\* C28: an __enter__ that raises, because another Tracker is active or
\* because the writer of this Tracker was consumed by an earlier __enter__,
\* leaves the active tracker, the profile hooks and the writers as they
\* were; and an __enter__ of a Tracker that still has its writer, called
\* while no Tracker is active, does not raise, also when an earlier
\* __enter__ of this Tracker was refused.
C28_FailedEnterChangesNothing ==
    [][\A th \in Threads :
         (caller[th].at = "idle" /\ caller'[th] # caller[th]) =>
            /\ caller'[th].raised # "none" =>
                 /\ UNCHANGED << _TRACKER, _writer, _profile_hook,
                                 _previous_thread_profile_func >>
                 /\ caller'[th].raised = "RuntimeError: active"
                        => _TRACKER # "NULL"
                 /\ caller'[th].raised = "RuntimeError: stale"
                        => ~_writer[caller'[th].self]
            /\ (_TRACKER = "NULL" /\ _writer[caller'[th].self]) =>
                 /\ caller'[th].raised = "none"
                 /\ caller'[th].at = "setprofile"
      ]_vars

\* a Tracker that was refused while another one was active is inside its
\* `with` statement: a later __enter__ of it succeeded
C28_Witness_RefusedThenEntered ==
    \E th \in Threads :
        /\ caller[th].at = "with"
        /\ caller[th].self \in refused
        /\ _TRACKER = caller[th].self


\* C21: a call of stack_trace with max_stacks = k returns at most k frames,
\* whatever max_stacks earlier calls on the same AllocationRecord used.
C21_AtMostMaxStacksFrames ==
    [][(traced'.calls = traced.calls + 1 /\ traced'.raised = "none") =>
         Len(traced'.returned) <= traced'.max_stacks
      ]_vars


\* the nodes from `index` toward the root, node 0 excluded
RECURSIVE PathToRoot(_)
PathToRoot(index) ==
    IF index = 0 THEN << >>
    ELSE << index >> \o PathToRoot(d_tree[index].parent_index)

EvalFramesUpTo(i) ==
    Cardinality({j \in 1..i : _is_eval_frame(native_stack[j][1])})

\* C24: hybrid_stack_trace yields, in the order of the native trace, each
\* native frame unchanged unless it is an eval frame, for which it yields
\* the next unused frame of the pure interpreter stack while there is one;
\* and the iteration ends without raising, whatever the numbers of eval
\* frames and of interpreter frames.
C24_HybridTrace ==
    hybrid # << >> =>
        LET pure == _pure_python_stack_trace(python_stack)
            yielded == hybrid[1].yielded
        IN  /\ hybrid[1].raised = "none"
            /\ \A i \in 1..Len(native_stack) :
                 IF ~_is_eval_frame(native_stack[i][1])
                 THEN i <= Len(yielded) /\ yielded[i] = native_stack[i]
                 ELSE EvalFramesUpTo(i) <= Len(pure) =>
                        /\ i <= Len(yielded)
                        /\ yielded[i] = pure[EvalFramesUpTo(i)]

====
